---- MODULE Spec2Model ----
(***************************************************************************)
(* Admission + scheduling core of the fog node (src/main.go).              *)
(*                                                                         *)
(* Units.  The Go code works on float64 and time.Duration; the model uses  *)
(* exact fixed-point integers:                                             *)
(*   cpu, ram, energy : thousandths of the node capacity (1.0 = 1000)      *)
(*   storage          : MB                                                 *)
(*   load             : hundredths (node.Load = len/100.0 is stored as len)*)
(*   durations        : milliseconds                                       *)
(*   smart score      : multiples of 1/20000 (42.1255 = 842510)            *)
(*   clock            : abstract ticks of time.Now()                       *)
(* Every critical section of the node lock fc.mu is one atomic action, so  *)
(* every state of the model is a state in which no thread holds the lock.  *)
(***************************************************************************)
EXTENDS Integers, Sequences, FiniteSets, Bags, TLC

\* ---------------------------------------------------------------- bounds
MaxSubmits == 2      \* POST /tasks requests issued during a run
MaxClock == 1        \* ticks the clock may advance during a run

\* ------------------------------------------------------ program constants
NumWorkers == 5            \* numWorkers
QueueLimit == 50           \* queueSize > 50
MaxLoadThreshold == 80     \* 0.8, in hundredths
EnergyFloor == 300         \* energyLevel < 0.3, in thousandths
CriticalLevel == 4         \* task.Criticality >= 4
CapCPU == 1000             \* availableCPU: 1.0
CapRAM == 1000             \* availableRAM: 1.0
CapStorage == 1000         \* availableStorage: 1000.0
CapEnergy == 1000          \* energyLevel: 1.0
DefaultNetworkLatency == 10   \* 10 * time.Millisecond

Slots == 1..MaxSubmits
NoTime == -1000

\* ------------------------------------------------------------- envelopes
\* A JSON task envelope as decoded into Task: an omitted field is 0.
Envelope(ty, pr, cr, cpu, ram, sto, en, lat, net) ==
    [type |-> ty, priority |-> pr, criticality |-> cr, cpuCost |-> cpu,
     ramCost |-> ram, storageCost |-> sto, energyCost |-> en,
     estimatedLatency |-> lat, networkLatency |-> net]

\* The envelopes clients send in the model.
EnvHeavy    == Envelope("edge_analytics", 0, 5, 600, 0, 0, 800, 0, 0)
EnvCritical == Envelope("caching", 3, 4, 0, 0, 0, 300, 0, 0)
EnvRoutine  == Envelope("caching", 3, 3, 0, 0, 0, 300, 0, 0)
Envelopes == {EnvHeavy, EnvCritical, EnvRoutine}

\* The envelope of scenario S1, and envelopes that differ from it in one
\* field: each type (one of them unknown to the node), and a declared
\* value for each number.
EnvS1 == Envelope("preprocessing", 1, 0, 0, 0, 0, 0, 0, 0)

Types == {"data_aggregation", "edge_analytics", "preprocessing", "caching",
          "video_transcoding"}

ScoreEnvelopes ==
    {[EnvS1 EXCEPT !.type = ty] : ty \in Types}
    \cup {[EnvS1 EXCEPT !.priority = 3],
          [EnvS1 EXCEPT !.criticality = 4],
          [EnvS1 EXCEPT !.cpuCost = 950],
          [EnvS1 EXCEPT !.ramCost = 250],
          [EnvS1 EXCEPT !.storageCost = 40],
          [EnvS1 EXCEPT !.energyCost = 70],
          [EnvS1 EXCEPT !.estimatedLatency = 1500],
          [EnvS1 EXCEPT !.networkLatency = 25]}

\* A small declared-cost task; a loaded node holds many of them.
EnvSmall(i) == Envelope("caching", i % 4, 0, 1, 1, 1, 1, 0, 0)

\* --------------------------------------------------------------- defaults
DefaultCPU(ty) ==
    CASE ty = "data_aggregation" -> 200
      [] ty = "edge_analytics" -> 400
      [] ty = "preprocessing" -> 100
      [] ty = "caching" -> 50
      [] OTHER -> 200

DefaultRAM(ty) ==
    CASE ty = "data_aggregation" -> 150
      [] ty = "edge_analytics" -> 300
      [] ty = "preprocessing" -> 100
      [] ty = "caching" -> 50
      [] OTHER -> 150

DefaultStorage(ty) ==
    CASE ty = "data_aggregation" -> 50
      [] ty = "edge_analytics" -> 100
      [] ty = "preprocessing" -> 25
      [] ty = "caching" -> 10
      [] OTHER -> 50

ApplyDefaultsEnergyFirst(e) ==
    LET cpu == IF e.cpuCost = 0 THEN DefaultCPU(e.type) ELSE e.cpuCost
        ram == IF e.ramCost = 0 THEN DefaultRAM(e.type) ELSE e.ramCost
        sto == IF e.storageCost = 0 THEN DefaultStorage(e.type) ELSE e.storageCost
        en  == IF e.energyCost = 0 THEN (e.cpuCost * 5) \div 10 ELSE e.energyCost
        net == IF e.networkLatency = 0 THEN DefaultNetworkLatency ELSE e.networkLatency
    IN [e EXCEPT !.cpuCost = cpu, !.ramCost = ram, !.storageCost = sto,
                 !.energyCost = en, !.networkLatency = net]

\* handleSubmitTask, "Définir les valeurs par défaut": 0 means unspecified.
ApplyDefaults(e) ==
    LET cpu == IF e.cpuCost = 0 THEN DefaultCPU(e.type) ELSE e.cpuCost
        ram == IF e.ramCost = 0 THEN DefaultRAM(e.type) ELSE e.ramCost
        sto == IF e.storageCost = 0 THEN DefaultStorage(e.type) ELSE e.storageCost
        en  == IF e.energyCost = 0 THEN (cpu * 5) \div 10 ELSE e.energyCost
        net == IF e.networkLatency = 0 THEN DefaultNetworkLatency ELSE e.networkLatency
    IN [e EXCEPT !.cpuCost = cpu, !.ramCost = ram, !.storageCost = sto,
                 !.energyCost = en, !.networkLatency = net]

\* ---------------------------------------------------------------- scoring
calculateScoreNoNetwork(t) ==
      t.priority * 20000
    + (5 - t.criticality) * 200000
    + t.estimatedLatency * 2
    + (t.cpuCost + t.ramCost) * 100
    + t.storageCost * 20
    + t.energyCost * 40

\* calculateScore, times 20000:
\*   priority + (5-criticality)*10 + latency_s*0.1 + network_s*0.05
\*   + (cpu+ram)*5 + storage*0.001 + energy*2
calculateScore(t) ==
      t.priority * 20000
    + (5 - t.criticality) * 200000
    + t.estimatedLatency * 2
    + t.networkLatency
    + (t.cpuCost + t.ramCost) * 100
    + t.storageCost * 20
    + t.energyCost * 40

\* A Task value: the envelope plus the fields the node fills in.
MakeTask(e, id, st, now) ==
    [type |-> e.type, priority |-> e.priority, criticality |-> e.criticality,
     cpuCost |-> e.cpuCost, ramCost |-> e.ramCost,
     storageCost |-> e.storageCost, energyCost |-> e.energyCost,
     estimatedLatency |-> e.estimatedLatency,
     networkLatency |-> e.networkLatency,
     id |-> id, smartScore |-> calculateScore(e), status |-> st,
     submittedAt |-> now, completedAt |-> NoTime, result |-> "none"]

\* ------------------------------------------------------------------- heap
\* TaskHeap is a slice of *Task; the model holds indexes into objs.
\* Positions are 0-based as in container/heap.
At(h, i) == h[i + 1]

LessFlipped(os, h, i, j) == os[At(h, i)].smartScore > os[At(h, j)].smartScore

Less(os, h, i, j) == os[At(h, i)].smartScore < os[At(h, j)].smartScore

Swap(h, i, j) == [h EXCEPT ![i + 1] = h[j + 1], ![j + 1] = h[i + 1]]

\* heap.up
RECURSIVE HeapUp(_, _, _)
HeapUp(os, h, j) ==
    LET i == (j - 1) \div 2
    IN IF j = 0 \/ i = j \/ ~Less(os, h, j, i)
         THEN h
         ELSE HeapUp(os, Swap(h, i, j), i)

\* heap.down on the first n positions
RECURSIVE HeapDown(_, _, _, _)
HeapDown(os, h, i, n) ==
    LET j1 == 2 * i + 1
        j2 == j1 + 1
        j  == IF j2 < n /\ Less(os, h, j2, j1) THEN j2 ELSE j1
    IN IF j1 >= n
         THEN h
         ELSE IF ~Less(os, h, j, i)
                THEN h
                ELSE HeapDown(os, Swap(h, i, j), j, n)

\* heap.Push(&fc.taskHeap, t): TaskHeap.Push appends, then up(Len-1)
HeapPush(os, h, o) == HeapUp(os, Append(h, o), Len(h))

\* heap.Pop(&fc.taskHeap): Swap(0, n), down(0, n), TaskHeap.Pop takes the last
HeapPopped(os, h) ==
    LET n == Len(h) - 1
    IN HeapDown(os, Swap(h, 0, n), 0, n)

HeapPopItem(os, h) == At(HeapPopped(os, h), Len(h) - 1)

HeapPopKept(os, h) == h

HeapPopRest(os, h) == SubSeq(HeapPopped(os, h), 1, Len(h) - 1)

\* ------------------------------------------------------------------ state
VARIABLES
    objs,             \* every Task value the node has created, by allocation
    tasks,            \* fc.tasks: id -> index into objs
    taskHeap,         \* fc.taskHeap: sequence of indexes into objs
    rejectedTasks,    \* fc.rejectedTasks
    availableCPU,     \* fc.availableCPU
    availableRAM,     \* fc.availableRAM
    availableStorage, \* fc.availableStorage
    energyLevel,      \* fc.energyLevel
    load,             \* fc.node.Load
    metrics,          \* fc.metrics
    clock,            \* time.Now()
    reqs,             \* POST /tasks requests: position and local variables
    looping,          \* workers at the top of their loop, before Lock
    waiting,          \* workers blocked in fc.cond.Wait()
    exited,           \* workers that have returned
    busy,             \* workers past heap.Pop: a bag of [task, pc, time]
    cancelled,        \* ctx.Done() is closed
    backlog,          \* length of the queue in the initial state
    probe,            \* the GET /metrics request: position and local variables
    mu,               \* fc.mu: its writer and its readers
    metricsMu,        \* fc.metrics.mu: its writer and its readers
    at                \* goroutines at each position between two lock calls

locks == <<mu, metricsMu, at>>

vars == <<objs, tasks, taskHeap, rejectedTasks, availableCPU, availableRAM,
          availableStorage, energyLevel, load, metrics, clock, reqs,
          looping, waiting, exited, busy, cancelled, backlog, probe, locks>>

workers == <<looping, waiting, exited, busy>>

ledger == <<availableCPU, availableRAM, availableStorage, energyLevel>>

\* Task ids a client may name in a retry: the ids submissions can get.
RetryIds == 0..MaxClock

IdleReq == [pc |-> "new"]

\* a request that has been answered: what it read, the answer, its task
DoneReq(r, outcome, o) == [r EXCEPT !.pc = "done", !.outcome = outcome, !.obj = o]

\* "Réserver les ressources": fc.availableX -= task.XCost
Reserve(avail, cost) == avail - cost

ReleaseForgotten(avail, cost) == avail

\* "Libérer les ressources": fc.availableX += task.XCost
Release(avail, cost) == avail + cost

\* fc.tasks[id] = &task
StorePut(m, id, o) ==
    [k \in (DOMAIN m) \cup {id} |-> IF k = id THEN o ELSE m[k]]

\* the GET /metrics request before it reads anything
IdleProbe == [pc |-> "new"]

\* A sync.RWMutex: the section its writer took it in, and how many readers
\* hold it.  A goroutine is told by its function and the place it is at.
NoOne == <<"none", "none">>

FreeLock == [w |-> NoOne, r |-> 0]

\* Start: five workers and the ticker; a POST /tasks per slot, a retry, a
\* clear and a GET /metrics are about to take their first lock.  The
\* goroutines at each place are counted, as the workers are.
Started ==
    (<<"worker", "loop">> :> NumWorkers) @@ (<<"submit", "call">> :> MaxSubmits)
    @@ (<<"retry", "call">> :> 1) @@ (<<"clear", "call">> :> 1)
    @@ (<<"ticker", "tick">> :> 1) @@ (<<"metrics", "call">> :> 1)

\* --------------------------------------------------------- initial states
\* A node that holds nc completed and nq queued small tasks, whose ticker
\* last saw a queue of ld tasks, and whose workers are all at the top of
\* their loop.  InitialObj(i, st) is the i-th of these tasks.
InitialObj(i, st) ==
    LET t == MakeTask(ApplyDefaults(EnvSmall(i)), 0 - i, st, 0 - i)
    IN IF st = "completed"
         THEN [t EXCEPT !.completedAt = 0, !.result = t.type]
         ELSE t

InitialObjs(nc, nq) ==
    [i \in 1..(nc + nq) |-> InitialObj(i, IF i <= nc THEN "completed" ELSE "queued")]

\* the heap h, which holds objects from+1 .. from+Len(h), after heap.Push of
\* the objects that follow them up to object to, in that order
RECURSIVE PushAll(_, _, _, _)
PushAll(os, h, from, to) ==
    IF from + Len(h) >= to THEN h
    ELSE PushAll(os, HeapPush(os, h, from + Len(h) + 1), from, to)

InitWith(nc, nq, ld, bl) ==
    /\ objs = InitialObjs(nc, nq)
    /\ tasks = [id \in {0 - i : i \in 1..(nc + nq)} |-> 0 - id]
    /\ taskHeap = PushAll(InitialObjs(nc, nq), <<>>, nc, nc + nq)
    /\ rejectedTasks = <<>>
    /\ availableCPU = CapCPU - nq
    /\ availableRAM = CapRAM - nq
    /\ availableStorage = CapStorage - nq
    /\ energyLevel = CapEnergy - nq
    /\ load = ld
    /\ metrics = [tasksProcessed |-> nc, tasksRejected |-> 0,
                  avgLatency |-> IF nc > 0 THEN 1 ELSE 0,
                  currentLoad |-> ld]
    /\ clock = 0
    /\ reqs = [s \in Slots |-> IdleReq]
    /\ looping = NumWorkers
    /\ waiting = 0
    /\ exited = 0
    /\ busy = EmptyBag
    /\ cancelled = FALSE
    /\ backlog = bl
    /\ probe = IdleProbe
    /\ mu = FreeLock
    /\ metricsMu = FreeLock
    /\ at = Started

\* the workers leave the nq tasks of the initial queue in it
InitOf(nc, nq, ld) == InitWith(nc, nq, ld, nq)

\* NewFogCompute and Start: the fresh node
Init == InitOf(0, 0, 0)

\* A state the fresh node reaches and that a run of MaxSubmits requests
\* cannot rebuild: the queue held MaxLoadThreshold + 1 small tasks at the
\* last ticker update, the workers have completed all but QueueLimit of
\* them since, and the ticker has not fired again.
InitLoaded == InitOf(MaxLoadThreshold + 1 - QueueLimit, QueueLimit,
                     MaxLoadThreshold + 1)

\* One task more than there are workers is queued, the ticker has seen
\* them, and the workers are free to pop them all.
InitBusy == InitWith(0, NumWorkers + 1, NumWorkers + 1, 0)

\* ------------------------------------------------------------- POST /tasks
VerdictAtLimit(r) ==
    IF r.currentLoad > MaxLoadThreshold \/ r.queueSize >= QueueLimit
      THEN "overload"
    ELSE IF \/ r.task.cpuCost > r.availableCPU
            \/ r.task.ramCost > r.availableRAM
            \/ r.task.storageCost > r.availableStorage
      THEN "resources"
    ELSE IF r.task.criticality >= CriticalLevel /\ r.energyLevel < EnergyFloor
      THEN "energy"
    ELSE "admit"

VerdictResourcesFirst(r) ==
    IF \/ r.task.cpuCost > r.availableCPU
       \/ r.task.ramCost > r.availableRAM
       \/ r.task.storageCost > r.availableStorage
      THEN "resources"
    ELSE IF r.currentLoad > MaxLoadThreshold \/ r.queueSize > QueueLimit
      THEN "overload"
    ELSE IF r.task.criticality >= CriticalLevel /\ r.energyLevel < EnergyFloor
      THEN "energy"
    ELSE "admit"

VerdictEnergyForAll(r) ==
    IF r.currentLoad > MaxLoadThreshold \/ r.queueSize > QueueLimit
      THEN "overload"
    ELSE IF \/ r.task.cpuCost > r.availableCPU
            \/ r.task.ramCost > r.availableRAM
            \/ r.task.storageCost > r.availableStorage
      THEN "resources"
    ELSE IF r.energyLevel < EnergyFloor
      THEN "energy"
    ELSE "admit"

\* The three rejection tests of handleSubmitTask, on the values it read
\* under RLock: the first one that fails gives the reason.
Verdict(r) ==
    IF r.currentLoad > MaxLoadThreshold \/ r.queueSize > QueueLimit
      THEN "overload"
    ELSE IF \/ r.task.cpuCost > r.availableCPU
            \/ r.task.ramCost > r.availableRAM
            \/ r.task.storageCost > r.availableStorage
      THEN "resources"
    ELSE IF r.task.criticality >= CriticalLevel /\ r.energyLevel < EnergyFloor
      THEN "energy"
    ELSE "admit"

SignalLost == UNCHANGED workers

\* fc.cond.Signal(): one worker blocked in cond.Wait, if any, is woken and
\* goes back to the test of its loop.
Signal ==
    IF waiting > 0
      THEN /\ waiting' = waiting - 1
           /\ looping' = looping + 1
           /\ UNCHANGED <<exited, busy>>
      ELSE UNCHANGED workers

\* Decode, the RLock section, the defaults, the score, the id and
\* submitted_at.  Requests take the slots in order.
SubmitSnapshot(s, e) ==
    /\ reqs[s].pc = "new"
    /\ IF s = 1 THEN TRUE ELSE reqs[s - 1].pc # "new"
    /\ reqs' = [reqs EXCEPT ![s] =
          [pc |-> "snap", outcome |-> "", obj |-> 0, sent |-> "",
           body |-> e,
           task |-> MakeTask(ApplyDefaults(e), clock, "", clock),
           currentLoad |-> load,
           queueSize |-> Len(taskHeap),
           availableCPU |-> availableCPU,
           availableRAM |-> availableRAM,
           availableStorage |-> availableStorage,
           energyLevel |-> energyLevel]]
    /\ UNCHANGED <<objs, tasks, taskHeap, rejectedTasks, ledger, load,
                   metrics, clock, workers, cancelled, backlog, probe, locks>>

rejectTaskUncounted(t, reason, ld, qs) ==
    /\ objs' = Append(objs, [t EXCEPT !.status = "rejected"])
    /\ rejectedTasks' = Append(rejectedTasks,
          [task |-> Len(objs) + 1, rejectionReason |-> reason,
           nodeLoad |-> ld, queueSize |-> qs])
    /\ UNCHANGED <<metrics, tasks, taskHeap, ledger, workers>>

\* rejectTask: one critical section
rejectTask(t, reason, ld, qs) ==
    /\ objs' = Append(objs, [t EXCEPT !.status = "rejected"])
    /\ rejectedTasks' = Append(rejectedTasks,
          [task |-> Len(objs) + 1, rejectionReason |-> reason,
           nodeLoad |-> ld, queueSize |-> qs])
    /\ metrics' = [metrics EXCEPT !.tasksRejected = @ + 1]
    /\ UNCHANGED <<tasks, taskHeap, ledger, workers>>

\* the Lock section that ends handleSubmitTask
Admit(t) ==
    LET o == Len(objs) + 1
        os == Append(objs, [t EXCEPT !.status = "queued"])
    IN /\ objs' = os
       /\ availableCPU' = Reserve(availableCPU, t.cpuCost)
       /\ availableRAM' = Reserve(availableRAM, t.ramCost)
       /\ availableStorage' = Reserve(availableStorage, t.storageCost)
       /\ energyLevel' = Reserve(energyLevel, t.energyCost)
       /\ tasks' = StorePut(tasks, t.id, o)
       /\ taskHeap' = HeapPush(os, taskHeap, o)
       /\ Signal
       /\ UNCHANGED <<rejectedTasks, metrics>>

\* The rest of handleSubmitTask up to its last Unlock: the rejection tests
\* on the values read earlier, then rejectTask or the reservation and the
\* push.  What follows the Unlock writes nothing: see SubmitRespond.
SubmitCommit(s) ==
    /\ reqs[s].pc = "snap"
    /\ LET r == reqs[s]
           v == Verdict(r)
       IN /\ IF v = "admit"
               THEN Admit(r.task)
               ELSE rejectTask(r.task, v, r.currentLoad, r.queueSize)
          /\ reqs' = [reqs EXCEPT ![s] = DoneReq(r, v, Len(objs) + 1)]
    /\ UNCHANGED <<load, clock, cancelled, backlog, probe, locks>>

\* The end of an admitted handleSubmitTask, after Unlock: json.Encode(task)
\* reads the Task the heap and the store point to, without the lock, while
\* a worker may be writing its Status under the lock.  The read returns
\* the value before or after such a write: the status at some instant.
SubmitRespond(s) ==
    /\ reqs[s].pc = "done"
    /\ reqs[s].outcome = "admit"
    /\ reqs[s].sent = ""
    /\ reqs' = [reqs EXCEPT ![s].sent = objs[reqs[s].obj].status]
    /\ UNCHANGED <<objs, tasks, taskHeap, rejectedTasks, ledger, load,
                   metrics, clock, workers, cancelled, backlog, probe, locks>>

\* ------------------------------------------- POST /rejected-tasks/{id}/retry
FoundIndexAny(id) == IF Len(rejectedTasks) > 0 THEN 1 ELSE 0

\* position of the first entry whose task has this id, 0 if none
FoundIndex(id) ==
    LET hits == {i \in 1..Len(rejectedTasks) : objs[rejectedTasks[i].task].id = id}
    IN IF hits = {} THEN 0 ELSE CHOOSE i \in hits : \A k \in hits : i <= k

RemoveThrough(q, i) == SubSeq(q, i + 1, Len(q))

RemoveNothing(q, i) == q

\* append(fc.rejectedTasks[:foundIndex], fc.rejectedTasks[foundIndex+1:]...)
RemoveAt(q, i) == SubSeq(q, 1, i - 1) \o SubSeq(q, i + 1, Len(q))

RetryFitsAllGates(t) ==
    /\ ~ \/ t.cpuCost > availableCPU
         \/ t.ramCost > availableRAM
         \/ t.storageCost > availableStorage
    /\ ~ (load > MaxLoadThreshold \/ Len(taskHeap) > QueueLimit)
    /\ ~ (t.criticality >= CriticalLevel /\ energyLevel < EnergyFloor)

RetryFitsAlways(t) == TRUE

\* "Vérifier si les ressources sont maintenant disponibles"
RetryFits(t) ==
    ~ \/ t.cpuCost > availableCPU
      \/ t.ramCost > availableRAM
      \/ t.storageCost > availableStorage

RetriedTaskRescored(t) ==
    [t EXCEPT !.status = "queued", !.submittedAt = clock,
              !.smartScore = calculateScore(t) + Len(taskHeap) + 1]

\* "Mettre à jour le statut de la tâche et resoumettre"
RetriedTask(t) ==
    [t EXCEPT !.status = "queued", !.submittedAt = clock,
              !.smartScore = calculateScore(t)]

handleRetryUncounts(id) ==
    LET i == FoundIndex(id)
    IN IF i = 0
         THEN UNCHANGED vars
       ELSE
         LET o == rejectedTasks[i].task
             t == objs[o]
         IN IF ~RetryFits(t)
              THEN UNCHANGED vars
            ELSE
              LET os == [objs EXCEPT ![o] = RetriedTask(t)]
              IN /\ rejectedTasks' = RemoveAt(rejectedTasks, i)
                 /\ objs' = os
                 /\ availableCPU' = Reserve(availableCPU, t.cpuCost)
                 /\ availableRAM' = Reserve(availableRAM, t.ramCost)
                 /\ availableStorage' = Reserve(availableStorage, t.storageCost)
                 /\ energyLevel' = Reserve(energyLevel, t.energyCost)
                 /\ tasks' = StorePut(tasks, t.id, o)
                 /\ taskHeap' = HeapPush(os, taskHeap, o)
                 /\ Signal
                 /\ metrics' = [metrics EXCEPT !.tasksRejected = @ - 1]
                 /\ UNCHANGED <<load, clock, reqs, cancelled, backlog, probe, locks>>

\* One critical section: find the entry, test the three costs, take the
\* entry out, queue its task.
handleRetryRejectedTask(id) ==
    LET i == FoundIndex(id)
    IN IF i = 0
         THEN UNCHANGED vars
       ELSE
         LET o == rejectedTasks[i].task
             t == objs[o]
         IN IF ~RetryFits(t)
              THEN UNCHANGED vars
            ELSE
              LET os == [objs EXCEPT ![o] = RetriedTask(t)]
              IN /\ rejectedTasks' = RemoveAt(rejectedTasks, i)
                 /\ objs' = os
                 /\ availableCPU' = Reserve(availableCPU, t.cpuCost)
                 /\ availableRAM' = Reserve(availableRAM, t.ramCost)
                 /\ availableStorage' = Reserve(availableStorage, t.storageCost)
                 /\ energyLevel' = Reserve(energyLevel, t.energyCost)
                 /\ tasks' = StorePut(tasks, t.id, o)
                 /\ taskHeap' = HeapPush(os, taskHeap, o)
                 /\ Signal
                 /\ UNCHANGED <<load, metrics, clock, reqs, cancelled, backlog, probe, locks>>

\* ---------------------------------------------------- DELETE /rejected-tasks
handleClearResetsCounter ==
    /\ rejectedTasks' = <<>>
    /\ metrics' = [metrics EXCEPT !.tasksRejected = 0]
    /\ UNCHANGED <<objs, tasks, taskHeap, ledger, load, clock, reqs,
                   workers, cancelled, backlog, probe, locks>>

\* count := len(fc.rejectedTasks) and the reset, under one Lock
handleClearRejectedTasks ==
    /\ rejectedTasks' = <<>>
    /\ UNCHANGED <<objs, tasks, taskHeap, ledger, load, metrics, clock, reqs,
                   workers, cancelled, backlog, probe, locks>>

\* ------------------------------------------------------------- GET /metrics
\* metrics := fc.metrics under fc.metrics.mu.RLock
MetricsReadCounters ==
    /\ probe.pc = "new"
    /\ probe' = [pc |-> "counters", metrics |-> metrics, rejectedCount |-> 0]
    /\ UNCHANGED <<objs, tasks, taskHeap, rejectedTasks, ledger, load, metrics,
                   clock, reqs, workers, cancelled, backlog, locks>>

\* rejectedCount := len(fc.rejectedTasks) under fc.mu.RLock; the response
\* is made of the two reads
MetricsReadQueue ==
    /\ probe.pc = "counters"
    /\ probe' = [probe EXCEPT !.pc = "done",
                              !.rejectedCount = Len(rejectedTasks)]
    /\ UNCHANGED <<objs, tasks, taskHeap, rejectedTasks, ledger, load, metrics,
                   clock, reqs, workers, cancelled, backlog, locks>>

\* ------------------------------------------------------------------ worker
\* The five workers run the same code and workerID is only logged, so the
\* model counts the workers that hold no task by position and keeps one
\* record [task, pc, time] per worker that holds one.
Holding(o, pc, tm) == [task |-> o, pc |-> pc, time |-> tm]

Moved(b, c) == (busy (-) SetToBag({b})) (+) SetToBag({c})

\* The Lock section at the top of the worker loop: wait while the heap is
\* empty, else pop.  Runs that start with a backlog are bounded: the workers
\* pop no more tasks than the run has pushed.
WorkerAcquire ==
    /\ looping > 0
    /\ looping' = looping - 1
    /\ IF Len(taskHeap) = 0
         THEN /\ waiting' = waiting + 1
              /\ UNCHANGED <<taskHeap, busy>>
         ELSE /\ Len(taskHeap) > backlog
              /\ busy' = busy (+) SetToBag(
                    {Holding(HeapPopItem(objs, taskHeap), "popped", 0)})
              /\ taskHeap' = HeapPopRest(objs, taskHeap)
              /\ UNCHANGED waiting
    /\ UNCHANGED <<objs, tasks, rejectedTasks, ledger, load, metrics, clock,
                   reqs, exited, cancelled, backlog, probe, locks>>

WorkerDispatchUnmarked(b) ==
    /\ BagIn(b, busy)
    /\ b.pc = "popped"
    /\ IF cancelled
         THEN /\ busy' = busy (-) SetToBag({b})
              /\ exited' = exited + 1
         ELSE /\ busy' = Moved(b, Holding(b.task, "processing", clock))
              /\ UNCHANGED exited
    /\ UNCHANGED <<objs, tasks, taskHeap, rejectedTasks, ledger, load, metrics,
                   clock, reqs, looping, waiting, cancelled, backlog, probe, locks>>

\* The select on ctx.Done(), then the start of processTask: startTime and
\* the Lock section that marks the task processing.
WorkerDispatch(b) ==
    /\ BagIn(b, busy)
    /\ b.pc = "popped"
    /\ IF cancelled
         THEN /\ busy' = busy (-) SetToBag({b})
              /\ exited' = exited + 1
              /\ UNCHANGED objs
         ELSE /\ busy' = Moved(b, Holding(b.task, "processing", clock))
              /\ objs' = [objs EXCEPT ![b.task].status = "processing"]
              /\ UNCHANGED exited
    /\ UNCHANGED <<tasks, taskHeap, rejectedTasks, ledger, load, metrics,
                   clock, reqs, looping, waiting, cancelled, backlog, probe, locks>>

HandlerResultEcho(ty) == ty

\* the result of the handler for a task type
HandlerResult(ty) ==
    IF ty \in {"data_aggregation", "edge_analytics", "preprocessing", "caching"}
      THEN ty
      ELSE "error"

WorkerCompleteUnmarked(b) ==
    /\ BagIn(b, busy)
    /\ b.pc = "processing"
    /\ LET t == objs[b.task]
       IN /\ objs' = [objs EXCEPT ![b.task].result = HandlerResult(t.type),
                                  ![b.task].completedAt = clock]
          /\ availableCPU' = Release(availableCPU, t.cpuCost)
          /\ availableRAM' = Release(availableRAM, t.ramCost)
          /\ availableStorage' = Release(availableStorage, t.storageCost)
          /\ energyLevel' = Release(energyLevel, t.energyCost)
    /\ busy' = Moved(b, Holding(b.task, "metrics", clock - b.time))
    /\ UNCHANGED <<tasks, taskHeap, rejectedTasks, load, metrics, clock, reqs,
                   looping, waiting, exited, cancelled, backlog, probe, locks>>

\* The handler has returned: completedAt, latency, and the Lock section
\* that completes the task and releases its reservation.
WorkerComplete(b) ==
    /\ BagIn(b, busy)
    /\ b.pc = "processing"
    /\ LET t == objs[b.task]
       IN /\ objs' = [objs EXCEPT ![b.task].status = "completed",
                                  ![b.task].result = HandlerResult(t.type),
                                  ![b.task].completedAt = clock]
          /\ availableCPU' = Release(availableCPU, t.cpuCost)
          /\ availableRAM' = Release(availableRAM, t.ramCost)
          /\ availableStorage' = Release(availableStorage, t.storageCost)
          /\ energyLevel' = Release(energyLevel, t.energyCost)
    /\ busy' = Moved(b, Holding(b.task, "metrics", clock - b.time))
    /\ UNCHANGED <<tasks, taskHeap, rejectedTasks, load, metrics, clock, reqs,
                   looping, waiting, exited, cancelled, backlog, probe, locks>>

WorkerMetricsHalves(b) ==
    /\ BagIn(b, busy)
    /\ b.pc = "metrics"
    /\ metrics' = [metrics EXCEPT
          !.tasksProcessed = @ + 1,
          !.avgLatency = (@ + b.time) \div 2]
    /\ busy' = busy (-) SetToBag({b})
    /\ looping' = looping + 1
    /\ UNCHANGED <<objs, tasks, taskHeap, rejectedTasks, ledger, load, clock,
                   reqs, waiting, exited, cancelled, backlog, probe, locks>>

WorkerMetricsTwice(b) ==
    /\ BagIn(b, busy)
    /\ b.pc = "metrics"
    /\ metrics' = [metrics EXCEPT
          !.tasksProcessed = @ + 2,
          !.avgLatency = IF @ = 0 THEN b.time ELSE (@ + b.time) \div 2]
    /\ busy' = busy (-) SetToBag({b})
    /\ looping' = looping + 1
    /\ UNCHANGED <<objs, tasks, taskHeap, rejectedTasks, ledger, load, clock,
                   reqs, waiting, exited, cancelled, backlog, probe, locks>>

\* the metrics lock section that ends processTask; the worker loops
WorkerMetrics(b) ==
    /\ BagIn(b, busy)
    /\ b.pc = "metrics"
    /\ metrics' = [metrics EXCEPT
          !.tasksProcessed = @ + 1,
          !.avgLatency = IF @ = 0 THEN b.time ELSE (@ + b.time) \div 2]
    /\ busy' = busy (-) SetToBag({b})
    /\ looping' = looping + 1
    /\ UNCHANGED <<objs, tasks, taskHeap, rejectedTasks, ledger, load, clock,
                   reqs, waiting, exited, cancelled, backlog, probe, locks>>

\* ----------------------------------------------------------- updateMetrics
updateMetricsIdle ==
    /\ ~cancelled
    /\ load' = 0
    /\ metrics' = [metrics EXCEPT !.currentLoad = 0]
    /\ UNCHANGED <<objs, tasks, taskHeap, rejectedTasks, ledger, clock, reqs,
                   workers, cancelled, backlog, probe, locks>>

\* A tick of the 5 s ticker: the Lock section that sets node.Load, then the
\* metrics lock section that copies it.
updateMetrics ==
    /\ ~cancelled
    /\ load' = Len(taskHeap)
    /\ metrics' = [metrics EXCEPT !.currentLoad = Len(taskHeap)]
    /\ UNCHANGED <<objs, tasks, taskHeap, rejectedTasks, ledger, clock, reqs,
                   workers, cancelled, backlog, probe, locks>>

\* ------------------------------------------------------------- environment
ClockStepsBack ==
    /\ clock > 0 - MaxClock
    /\ clock' = clock - 1
    /\ UNCHANGED <<objs, tasks, taskHeap, rejectedTasks, ledger, load, metrics,
                   reqs, workers, cancelled, backlog, probe, locks>>

\* time passes
ClockTick ==
    /\ clock < MaxClock
    /\ clock' = clock + 1
    /\ UNCHANGED <<objs, tasks, taskHeap, rejectedTasks, ledger, load, metrics,
                   reqs, workers, cancelled, backlog, probe, locks>>

\* SIGINT: main calls cancel()
Cancel ==
    /\ ~cancelled
    /\ cancelled' = TRUE
    /\ UNCHANGED <<objs, tasks, taskHeap, rejectedTasks, ledger, load, metrics,
                   clock, reqs, workers, backlog, probe, locks>>

Next ==
    \/ \E s \in Slots, e \in Envelopes : SubmitSnapshot(s, e)
    \/ \E s \in Slots : SubmitCommit(s)
    \/ \E id \in RetryIds : handleRetryRejectedTask(id)
    \/ handleClearRejectedTasks
    \/ WorkerAcquire
    \/ \E b \in BagToSet(busy) : WorkerDispatch(b)
    \/ \E b \in BagToSet(busy) : WorkerComplete(b)
    \/ \E b \in BagToSet(busy) : WorkerMetrics(b)
    \/ updateMetrics
    \/ ClockTick
    \/ Cancel

Spec == Init /\ [][Next]_vars

SpecLoaded == InitLoaded /\ [][Next]_vars

\* The Go scheduler runs every runnable goroutine and sync.RWMutex hands
\* the lock to every goroutine that asks for it: a worker that can take a
\* step of its loop eventually takes it.  The requests, the ticker, the
\* clock and SIGINT are under no such obligation.
WorkerStep(o) ==
    \E b \in BagToSet(busy) :
        /\ b.task = o
        /\ (WorkerDispatch(b) \/ WorkerComplete(b) \/ WorkerMetrics(b))

Fairness ==
    /\ WF_vars(WorkerAcquire)
    /\ \A o \in 1..MaxSubmits : WF_vars(WorkerStep(o))

LiveSpec == Init /\ [][Next]_vars /\ Fairness

\* Next is every step that reads or writes the node's state under its
\* locks.  NextReply adds the step that writes the body of a 200 answer,
\* which reads a Task outside the lock and writes nothing.
NextReply ==
    \/ Next
    \/ \E s \in Slots : SubmitRespond(s)

SpecReply == Init /\ [][NextReply]_vars

\* The node under submissions of the envelopes of ScoreEnvelopes and
\* retries, with its workers; the clock, the ticker and SIGINT are left out.
NextScore ==
    \/ \E s \in Slots, e \in ScoreEnvelopes : SubmitSnapshot(s, e)
    \/ \E s \in Slots : SubmitCommit(s)
    \/ \E id \in RetryIds : handleRetryRejectedTask(id)
    \/ WorkerAcquire
    \/ \E b \in BagToSet(busy) : WorkerDispatch(b)
    \/ \E b \in BagToSet(busy) : WorkerComplete(b)
    \/ \E b \in BagToSet(busy) : WorkerMetrics(b)

SpecScore == Init /\ [][NextScore]_vars

\* One GET /metrics request among the requests that write the rejection
\* queue and tasks_rejected, submissions, retries and a clear, and the
\* workers; the clock, the ticker and SIGINT are left out.
NextProbe ==
    \/ \E s \in Slots, e \in Envelopes : SubmitSnapshot(s, e)
    \/ \E s \in Slots : SubmitCommit(s)
    \/ \E id \in RetryIds : handleRetryRejectedTask(id)
    \/ handleClearRejectedTasks
    \/ WorkerAcquire
    \/ \E b \in BagToSet(busy) : WorkerDispatch(b)
    \/ \E b \in BagToSet(busy) : WorkerComplete(b)
    \/ \E b \in BagToSet(busy) : WorkerMetrics(b)
    \/ MetricsReadCounters
    \/ MetricsReadQueue

SpecProbe == Init /\ [][NextProbe]_vars

\* The workers, the ticker and SIGINT on a node that receives no request.
NextBusy ==
    \/ WorkerAcquire
    \/ \E b \in BagToSet(busy) : WorkerDispatch(b)
    \/ \E b \in BagToSet(busy) : WorkerComplete(b)
    \/ \E b \in BagToSet(busy) : WorkerMetrics(b)
    \/ updateMetrics
    \/ Cancel

SpecBusy == InitBusy /\ [][NextBusy]_vars

\* ------------------------------------------------------------------- locks
\* The same goroutines seen at their lock calls.  A step is a call on fc.mu
\* or fc.metrics.mu, or a return, that takes a goroutine of a function from
\* one place of its code to the next; what the sections do to the node's
\* data is the subject of the actions above and is left alone here, so a
\* test on the data (the heap is empty, a gate rejects) is a choice.
node == <<objs, tasks, taskHeap, rejectedTasks, ledger, load, metrics, clock,
          reqs, workers, backlog, probe>>

CanLock(m) == m.w = NoOne /\ m.r = 0

CanRLock(m) == m.w = NoOne

Locked(m, section) == [m EXCEPT !.w = section]

Unlocked(m) == [m EXCEPT !.w = NoOne]

RLocked(m) == [m EXCEPT !.r = @ + 1]

RUnlocked(m) == [m EXCEPT !.r = @ - 1]

Goes(a, from, to) == (a (-) SetToBag({from})) (+) SetToBag({to})

\* fc.cond.Signal() seen from the places: a worker in cond.Wait, if any,
\* goes back to take fc.mu and test the heap again
Woken(a) ==
    IF BagIn(<<"worker", "waiting">>, a)
      THEN Goes(a, <<"worker", "waiting">>, <<"worker", "loop">>)
      ELSE a

\* worker, lines 200-214: Lock; cond.Wait while the heap is empty (Wait
\* unlocks fc.mu); heap.Pop and Unlock; return if ctx is done
workerSteps ==
    {<<"Lock", "loop", "popping">>,
     <<"Wait", "popping", "waiting">>,
     <<"Unlock", "popping", "popped">>,
     <<"return", "popped", "exited">>}

processTaskHoldsLock ==
    {<<"call", "popped", "marking">>,
     <<"go", "marking", "handler">>,
     <<"go", "handler", "completing">>,
     <<"Unlock", "completing", "metrics">>,
     <<"metrics.Lock", "metrics", "counting">>,
     <<"metrics.Unlock", "counting", "loop">>}

\* processTask, lines 222-269: Lock, mark, Unlock; the handler; Lock,
\* complete and release, Unlock; metrics.mu.Lock, count, Unlock
processTaskSteps ==
    {<<"call", "popped", "marking">>,
     <<"Unlock", "marking", "handler">>,
     <<"Lock", "handler", "completing">>,
     <<"Unlock", "completing", "metrics">>,
     <<"metrics.Lock", "metrics", "counting">>,
     <<"metrics.Unlock", "counting", "loop">>}

\* handleSubmitTask: RLock, read, RUnlock (347-354); the gates; then
\* either rejectTask or Lock, reserve, push, Signal, Unlock (446-456)
handleSubmitTaskSteps ==
    {<<"RLock", "call", "snapshot">>,
     <<"RUnlock", "snapshot", "toReject">>,
     <<"RUnlock", "snapshot", "toAdmit">>,
     <<"Lock", "toAdmit", "admitting">>,
     <<"Signal, Unlock", "admitting", "call">>}

\* rejectTask, lines 161-180: Lock; append; metrics.mu.Lock, count, Unlock;
\* log; the deferred Unlock
rejectTaskSteps ==
    {<<"Lock", "toReject", "rejecting">>,
     <<"metrics.Lock", "rejecting", "counting">>,
     <<"metrics.Unlock", "counting", "logging">>,
     <<"Unlock", "logging", "call">>}

\* handleRetryRejectedTask: Lock (502) and the deferred Unlock, after a
\* Signal when the retry has pushed the task (546)
handleRetryRejectedTaskSteps ==
    {<<"Lock", "call", "retrying">>,
     <<"Unlock", "retrying", "call">>,
     <<"Signal, Unlock", "retrying", "call">>}

\* handleClearRejectedTasks: Lock, reset, Unlock
handleClearRejectedTasksSteps ==
    {<<"Lock", "call", "clearing">>,
     <<"Unlock", "clearing", "call">>}

\* updateMetrics, lines 321-334: return if ctx is done; on a tick Lock,
\* load, Unlock, then metrics.mu.Lock, copy, Unlock
updateMetricsSteps ==
    {<<"return", "tick", "exited">>,
     <<"Lock", "tick", "loading">>,
     <<"Unlock", "loading", "copy">>,
     <<"metrics.Lock", "copy", "copying">>,
     <<"metrics.Unlock", "copying", "tick">>}

handleGetMetricsNested ==
    {<<"metrics.RLock", "call", "counters">>,
     <<"go", "counters", "between">>,
     <<"RLock", "between", "queue">>,
     <<"RUnlock", "queue", "call">>}

\* handleGetMetrics, lines 582-588: metrics.mu.RLock, copy, RUnlock; then
\* RLock, len(rejectedTasks), RUnlock
handleGetMetricsSteps ==
    {<<"metrics.RLock", "call", "counters">>,
     <<"metrics.RUnlock", "counters", "between">>,
     <<"RLock", "between", "queue">>,
     <<"RUnlock", "queue", "call">>}

\* the steps of each function's goroutines
StepsOf(role) ==
    CASE role = "worker" -> workerSteps \cup processTaskSteps
      [] role = "submit" -> handleSubmitTaskSteps \cup rejectTaskSteps
      [] role = "retry" -> handleRetryRejectedTaskSteps
      [] role = "clear" -> handleClearRejectedTasksSteps
      [] role = "ticker" -> updateMetricsSteps
      [] role = "metrics" -> handleGetMetricsSteps

Roles == {"worker", "submit", "retry", "clear", "ticker", "metrics"}

\* one goroutine of the function takes the step st = <<call, from, to>>
LockStep(role, st) ==
    LET call == st[1]
        from == <<role, st[2]>>
        to == <<role, st[3]>>
    IN /\ BagIn(from, at)
       /\ at' = IF call = "Signal, Unlock"
                  THEN Woken(Goes(at, from, to))
                  ELSE Goes(at, from, to)
       /\ CASE call = "Lock" ->
                 /\ CanLock(mu)
                 /\ mu' = Locked(mu, to)
                 /\ UNCHANGED metricsMu
            [] call = "call" ->
                 /\ ~cancelled
                 /\ CanLock(mu)
                 /\ mu' = Locked(mu, to)
                 /\ UNCHANGED metricsMu
            [] call \in {"Unlock", "Wait", "Signal, Unlock"} ->
                 /\ mu' = Unlocked(mu)
                 /\ UNCHANGED metricsMu
            [] call = "RLock" ->
                 /\ CanRLock(mu)
                 /\ mu' = RLocked(mu)
                 /\ UNCHANGED metricsMu
            [] call = "RUnlock" ->
                 /\ mu' = RUnlocked(mu)
                 /\ UNCHANGED metricsMu
            [] call = "metrics.Lock" ->
                 /\ CanLock(metricsMu)
                 /\ metricsMu' = Locked(metricsMu, to)
                 /\ UNCHANGED mu
            [] call = "metrics.Unlock" ->
                 /\ metricsMu' = Unlocked(metricsMu)
                 /\ UNCHANGED mu
            [] call = "metrics.RLock" ->
                 /\ CanRLock(metricsMu)
                 /\ metricsMu' = RLocked(metricsMu)
                 /\ UNCHANGED mu
            [] call = "metrics.RUnlock" ->
                 /\ metricsMu' = RUnlocked(metricsMu)
                 /\ UNCHANGED mu
            [] call = "return" ->
                 /\ cancelled
                 /\ UNCHANGED <<mu, metricsMu>>
            [] call = "go" ->
                 UNCHANGED <<mu, metricsMu>>
       /\ UNCHANGED <<node, cancelled>>

NextLocks ==
    \/ \E role \in Roles : \E st \in StepsOf(role) : LockStep(role, st)
    \/ Cancel

\* the steps of a function that ask for a lock, and those that give one up
Acquisitions(role) ==
    {st \in StepsOf(role) :
        st[1] \in {"Lock", "call", "RLock", "metrics.Lock", "metrics.RLock"}}

Releases(role) ==
    {st \in StepsOf(role) :
        st[1] \in {"Unlock", "Wait", "Signal, Unlock", "RUnlock",
                   "metrics.Unlock", "metrics.RUnlock"}}

\* the places of a function inside a section of a lock
Inside(role) ==
    {st[3] : st \in Acquisitions(role)} \cup {st[2] : st \in Releases(role)}

\* a goroutine of the function leaves the place, by one of the steps its
\* code has there
Leaves(role, from) ==
    \E st \in StepsOf(role) : st[2] = from /\ LockStep(role, st)

\* The scheduler runs every goroutine that can run, and no section waits
\* for anything but a lock: a goroutine inside a section that can go on
\* does.  Nothing is asked of the goroutines outside the sections, of the
\* locks (which of the callers gets a free lock), nor of SIGINT.
LockFairness ==
    \A role \in Roles : \A from \in Inside(role) :
        WF_vars(Leaves(role, from))

SpecLocks == Init /\ [][NextLocks]_vars /\ LockFairness

\* ================================================================= claims
Live(o) == objs[o].status \in {"queued", "processing"}

\* sum of cost(objs[o]) over the live tasks among the first n
RECURSIVE ReservedUpTo(_, _)
ReservedUpTo(cost(_), n) ==
    IF n = 0 THEN 0
    ELSE ReservedUpTo(cost, n - 1) + (IF Live(n) THEN cost(objs[n]) ELSE 0)

Reserved(cost(_)) == ReservedUpTo(cost, Len(objs))

CostCPU(t) == t.cpuCost
CostRAM(t) == t.ramCost
CostStorage(t) == t.storageCost
CostEnergy(t) == t.energyCost

\* C1.  Resource conservation: on each of the four dimensions, what is
\* available plus the costs of the tasks that are queued or processing is
\* the initial capacity, in every state.
Thm_C1 ==
    /\ availableCPU + Reserved(CostCPU) = CapCPU
    /\ availableRAM + Reserved(CostRAM) = CapRAM
    /\ availableStorage + Reserved(CostStorage) = CapStorage
    /\ energyLevel + Reserved(CostEnergy) = CapEnergy

\* a task has completed and given its reservation back while another one,
\* admitted by a retry, still holds its own
Wit_C1 ==
    \E o, q \in DOMAIN objs :
        /\ objs[o].status = "completed"
        /\ Live(q)
        /\ \E s \in Slots : /\ reqs[s].pc = "done"
                            /\ reqs[s].obj = q
                            /\ reqs[s].outcome # "admit"

\* C2.  No oversubscription: the cpu, ram and storage availabilities are
\* never negative, whatever the interleaving of the submissions.
Cex_C2 ==
    /\ availableCPU >= 0
    /\ availableRAM >= 0
    /\ availableStorage >= 0

\* the step is a heap.Pop by a worker, which now holds b
PopOf(b) ==
    /\ b.pc = "popped"
    /\ CopiesIn(b, busy') > CopiesIn(b, busy)

\* C3.  Queue ordering: the task a worker pops has the least smart score of
\* the tasks that were in the priority queue.
Thm_C3 ==
    [][\A b \in BagToSet(busy') :
          PopOf(b) => \A i \in 1..Len(taskHeap) :
                         objs[b.task].smartScore <= objs[taskHeap[i]].smartScore]_vars

\* a worker holds a task it popped from under a queue of more than two
\* tasks, which was not the first of them to be pushed and scores strictly
\* less than one that stays
Wit_C3 ==
    \E b \in BagToSet(busy) :
        /\ b.pc = "popped"
        /\ Len(taskHeap) > 2
        /\ \E i \in 1..Len(taskHeap) :
              /\ taskHeap[i] < b.task
              /\ objs[b.task].smartScore < objs[taskHeap[i]].smartScore

\* C4.  Every admitted task is eventually completed, unless the node is
\* cancelled: a task that is queued (by POST /tasks or by a retry) leads to
\* the same task being completed.
StatusOf(o) == IF o \in DOMAIN objs THEN objs[o].status ELSE "none"

Thm_C4 ==
    \A o \in 1..MaxSubmits :
        (StatusOf(o) = "queued") ~> (cancelled \/ StatusOf(o) = "completed")

\* a task was pushed while every worker was blocked in cond.Wait, and has
\* completed on a node that is not cancelled
Wit_C4 ==
    /\ ~cancelled
    /\ waiting = NumWorkers
    /\ \E o \in DOMAIN objs : objs[o].status = "completed"

StatusChange(o) == <<objs[o].status, objs'[o].status>>

\* C5 as stated.  A task changes status only from queued to processing and
\* from processing to completed; rejected is terminal.
Cex_C5 ==
    [][\A o \in DOMAIN objs :
          objs'[o].status # objs[o].status =>
              StatusChange(o) \in {<<"queued", "processing">>,
                                   <<"processing", "completed">>}]_vars

InRejectionQueue(q, o) == \E i \in 1..Len(q) : q[i].task = o

\* C5 as amended.  A task changes status only from queued to processing,
\* from processing to completed and, in a step that takes its entry out of
\* the rejection queue (a successful retry), from rejected to queued.
Thm_C5 ==
    [][\A o \in DOMAIN objs :
          objs'[o].status # objs[o].status =>
              \/ StatusChange(o) \in {<<"queued", "processing">>,
                                      <<"processing", "completed">>}
              \/ /\ StatusChange(o) = <<"rejected", "queued">>
                 /\ InRejectionQueue(rejectedTasks, o)
                 /\ ~InRejectionQueue(rejectedTasks', o)]_vars

\* a submission was rejected, and its task has gone through queued and
\* processing to completed since
Wit_C5 ==
    \E s \in Slots :
        /\ reqs[s].pc = "done"
        /\ reqs[s].outcome # "admit"
        /\ objs[reqs[s].obj].status = "completed"

\* ------------------------------------------- the end of a POST /tasks
\* the step answers request s
Commits(s) == reqs[s].pc = "snap" /\ reqs'[s].pc = "done"

\* the gates, on what request r read
SawOverload(r) == r.queueSize > QueueLimit \/ r.currentLoad > MaxLoadThreshold

SawShortage(r) ==
    \/ r.task.cpuCost > r.availableCPU
    \/ r.task.ramCost > r.availableRAM
    \/ r.task.storageCost > r.availableStorage

SawLowEnergy(r) == r.energyLevel < EnergyFloor

\* the step appends one record, with this reason, to the rejection queue
RejectedAs(reason) ==
    /\ Len(rejectedTasks') = Len(rejectedTasks) + 1
    /\ rejectedTasks'[Len(rejectedTasks')].rejectionReason = reason

\* the step stores and enqueues the task of request s
Admitted(s) ==
    LET o == reqs'[s].obj
    IN /\ o \in DOMAIN objs' /\ o \notin DOMAIN objs
       /\ objs'[o].status = "queued"
       /\ \E i \in 1..Len(taskHeap') : taskHeap'[i] = o
       /\ Len(taskHeap') = Len(taskHeap) + 1
       /\ rejectedTasks' = rejectedTasks

Thm_C7 ==
    [][\A s \in Slots : Commits(s) =>
          LET r == reqs[s]
              critical == r.task.criticality >= CriticalLevel
          IN /\ SawOverload(r) => RejectedAs("overload")
             /\ (~SawOverload(r) /\ SawShortage(r)) => RejectedAs("resources")
             /\ (~SawOverload(r) /\ ~SawShortage(r) /\ critical /\ SawLowEnergy(r))
                   => RejectedAs("energy")
             /\ (~SawOverload(r) /\ ~SawShortage(r) /\ ~(critical /\ SawLowEnergy(r)))
                   => Admitted(s)]_vars

\* a submission that failed the overload, the resource and the energy gate
\* is recorded with the overload reason
Wit_C7 ==
    \E i \in 1..Len(rejectedTasks), s \in Slots :
        /\ reqs[s].pc = "done"
        /\ reqs[s].obj = rejectedTasks[i].task
        /\ SawOverload(reqs[s])
        /\ SawShortage(reqs[s])
        /\ SawLowEnergy(reqs[s]) /\ reqs[s].task.criticality >= CriticalLevel
        /\ rejectedTasks[i].rejectionReason = "overload"

\* C8.  Energy gate asymmetry: of the submissions that read an energy level
\* below 0.30, no overload and enough cpu, ram and storage, those of
\* criticality 3 or less are admitted and those of criticality 4 or more
\* are rejected with the energy reason.
Thm_C8 ==
    [][\A s \in Slots :
          (/\ Commits(s)
           /\ reqs[s].energyLevel < EnergyFloor
           /\ ~SawOverload(reqs[s])
           /\ ~SawShortage(reqs[s]))
          => /\ reqs[s].task.criticality <= 3 => Admitted(s)
             /\ reqs[s].task.criticality >= 4 => RejectedAs("energy")]_vars

\* a submission of criticality 3 that read an energy level below 0.30 has
\* been admitted
Wit_C8 ==
    \E s \in Slots :
        /\ reqs[s].pc = "done"
        /\ reqs[s].energyLevel < EnergyFloor
        /\ reqs[s].task.criticality = 3
        /\ reqs[s].outcome = "admit"
        /\ objs[reqs[s].obj].status = "queued"

\* C9.  energy_level stays within [0, 1].
Cex_C9 == energyLevel >= 0 /\ energyLevel <= CapEnergy

\* C10.  A rejected submission appends exactly one record, of status
\* rejected and with the reason, to the rejection queue and adds exactly 1
\* to tasks_rejected; the four availabilities, the task store, the priority
\* queue and tasks_processed do not change.
Thm_C10 ==
    [][\A s \in Slots : (Commits(s) /\ reqs'[s].outcome # "admit") =>
          LET n == Len(rejectedTasks)
          IN /\ Len(rejectedTasks') = n + 1
             /\ SubSeq(rejectedTasks', 1, n) = rejectedTasks
             /\ rejectedTasks'[n + 1].rejectionReason = reqs'[s].outcome
             /\ rejectedTasks'[n + 1].task = reqs'[s].obj
             /\ rejectedTasks'[n + 1].task \notin DOMAIN objs
             /\ objs'[rejectedTasks'[n + 1].task].status = "rejected"
             /\ metrics'.tasksRejected = metrics.tasksRejected + 1
             /\ metrics'.tasksProcessed = metrics.tasksProcessed
             /\ ledger' = ledger
             /\ tasks' = tasks
             /\ taskHeap' = taskHeap]_vars

\* a submission has been rejected for lack of resources on a node that
\* holds a reservation and a queue, and is on record
Wit_C10 ==
    \E i \in 1..Len(rejectedTasks) :
        /\ rejectedTasks[i].rejectionReason = "resources"
        /\ objs[rejectedTasks[i].task].status = "rejected"
        /\ metrics.tasksRejected >= 1
        /\ availableCPU < CapCPU
        /\ Len(taskHeap) > 0

\* ------------------------------------------------------------------ retry
\* the rejection queue holds an entry for this id
IdRejected(id) ==
    \E i \in 1..Len(rejectedTasks) : objs[rejectedTasks[i].task].id = id

\* the task of the entry a retry of this id is about: the oldest one
RetryTarget(id) ==
    LET i == CHOOSE i \in 1..Len(rejectedTasks) :
                /\ objs[rejectedTasks[i].task].id = id
                /\ \A k \in 1..(i - 1) : objs[rejectedTasks[k].task].id # id
    IN rejectedTasks[i].task

CostsFit(t) ==
    /\ t.cpuCost <= availableCPU
    /\ t.ramCost <= availableRAM
    /\ t.storageCost <= availableStorage

InQueue(h, o) == \E k \in 1..Len(h) : h[k] = o

\* a retry of this id that changes the state
RetryActs(id) == handleRetryRejectedTask(id) /\ vars' # vars

\* a retry of this id that leaves its task queued, in the priority queue
RetrySucceeds(id) ==
    /\ handleRetryRejectedTask(id)
    /\ objs'[RetryTarget(id)].status = "queued"
    /\ InQueue(taskHeap', RetryTarget(id))

\* C11.  Retry applies the resource gate only: a retry of an id of the
\* rejection queue whose entry's cpu, ram and storage costs are within the
\* current availabilities succeeds, whatever the queue length, the load,
\* the task's criticality and the energy level.
Thm_C11 ==
    \A id \in RetryIds :
        (IdRejected(id) /\ CostsFit(objs[RetryTarget(id)]))
            => ENABLED RetrySucceeds(id)

\* a submission rejected for overload has been queued by a retry that found
\* more than 50 tasks in the priority queue
Wit_C11 ==
    \E s \in Slots :
        /\ reqs[s].pc = "done"
        /\ reqs[s].outcome = "overload"
        /\ objs[reqs[s].obj].status = "queued"
        /\ InQueue(taskHeap, reqs[s].obj)
        /\ Len(taskHeap) > QueueLimit + 1

\* the step is a successful retry of task o
Retried(o) == StatusChange(o) = <<"rejected", "queued">>

Thm_C13 ==
    \A id \in RetryIds :
        (IdRejected(id) /\ ~CostsFit(objs[RetryTarget(id)]))
            => ~ENABLED RetryActs(id)

\* a rejected task is on record whose cpu cost exceeds what is available,
\* while its ram and storage costs fit
Wit_C13 ==
    \E id \in RetryIds :
        /\ IdRejected(id)
        /\ objs[RetryTarget(id)].cpuCost > availableCPU
        /\ objs[RetryTarget(id)].ramCost <= availableRAM
        /\ objs[RetryTarget(id)].storageCost <= availableStorage
        /\ objs[RetryTarget(id)].status = "rejected"

ClearFrame ==
    /\ rejectedTasks' = <<>>
    /\ metrics' = metrics
    /\ ledger' = ledger
    /\ tasks' = tasks
    /\ taskHeap' = taskHeap
    /\ objs' = objs

\* C15.  Clear empties the rejection queue, discarding the entries it held
\* at that instant, and changes neither tasks_rejected, tasks_processed,
\* the ledger, the task store nor the priority queue: no clear step does
\* otherwise.
Thm_C15 == ~ENABLED (handleClearRejectedTasks /\ ~ClearFrame)

\* a rejected submission is no longer on record although it was never
\* retried, and is still counted
Wit_C15 ==
    /\ rejectedTasks = <<>>
    /\ metrics.tasksRejected > 0
    /\ \E s \in Slots :
          /\ reqs[s].pc = "done"
          /\ reqs[s].outcome # "admit"
          /\ objs[reqs[s].obj].status = "rejected"
    /\ \E o \in DOMAIN objs : Live(o)

\* C16.  Id uniqueness: no two tasks the node has handled, admitted or
\* rejected, carry the same id.
Cex_C16 ==
    \A o, q \in DOMAIN objs : o # q => objs[o].id # objs[q].id

\* C17.  The task returned by a successful POST /tasks carries the status
\* queued, whatever the workers have done in the meantime.
Cex_C17 ==
    \A s \in Slots :
        (reqs[s].pc = "done" /\ reqs[s].outcome = "admit" /\ reqs[s].sent # "")
            => reqs[s].sent = "queued"

\* ---------------------------------------------------------------- scoring
\* request r read an idle node: nothing queued, nothing reserved
SawIdle(r) ==
    /\ r.queueSize = 0 /\ r.currentLoad = 0
    /\ r.availableCPU = CapCPU /\ r.availableRAM = CapRAM
    /\ r.availableStorage = CapStorage /\ r.energyLevel = CapEnergy

\* the task of a body {type: preprocessing, priority: 1}: every other
\* number decodes to 0 and the costs and network latency get their defaults
FromS1(t) ==
    /\ t.type = "preprocessing" /\ t.priority = 1 /\ t.criticality = 0
    /\ t.estimatedLatency = 0 /\ t.networkLatency = DefaultNetworkLatency
    /\ t.cpuCost = DefaultCPU("preprocessing")
    /\ t.ramCost = DefaultRAM("preprocessing")
    /\ t.storageCost = DefaultStorage("preprocessing")

\* C18.  Scenario S1: {type: preprocessing, priority: 1} on an idle node is
\* admitted with cpu_cost 0.1, ram_cost 0.1, storage_cost 25, energy_cost
\* 0.05 and smart_score 42.1255 (842510 twenty-thousandths).
Cex_C18 ==
    \A s \in Slots :
        (reqs[s].pc = "done" /\ SawIdle(reqs[s]) /\ FromS1(reqs[s].task))
            => /\ reqs[s].outcome = "admit"
               /\ objs[reqs[s].obj].cpuCost = 100
               /\ objs[reqs[s].obj].ramCost = 100
               /\ objs[reqs[s].obj].storageCost = 25
               /\ objs[reqs[s].obj].energyCost = 50
               /\ objs[reqs[s].obj].smartScore = 842510

\* The score of section 4.1 for a task, in twenty-thousandths: latencies
\* are in ms (0.1 per s is 2 per ms, 0.05 per s is 1 per ms), cpu, ram and
\* energy in thousandths, storage in MB.
SectionScore(t) ==
    20000 * (t.priority + (5 - t.criticality) * 10)
    + 2 * t.estimatedLatency + 1 * t.networkLatency
    + 100 * (t.cpuCost + t.ramCost)
    + 20 * t.storageCost
    + 40 * t.energyCost

SameAttributes(t, u) ==
    /\ t.type = u.type /\ t.priority = u.priority
    /\ t.criticality = u.criticality
    /\ t.cpuCost = u.cpuCost /\ t.ramCost = u.ramCost
    /\ t.storageCost = u.storageCost /\ t.energyCost = u.energyCost
    /\ t.estimatedLatency = u.estimatedLatency
    /\ t.networkLatency = u.networkLatency

Thm_C20 ==
    [][\A o \in DOMAIN objs : objs'[o].smartScore = objs[o].smartScore]_vars

\* a task rejected with the score computed at its submission has been
\* retried and has completed with that score
Wit_C20 ==
    \E s \in Slots :
        /\ reqs[s].pc = "done"
        /\ reqs[s].outcome = "resources"
        /\ objs[reqs[s].obj].status = "completed"
        /\ objs[reqs[s].obj].smartScore = reqs[s].task.smartScore
        /\ objs[reqs[s].obj].estimatedLatency > 0

\* --------------------------------------------------------------- defaults
\* the table of section 4.2: <<cpu, ram, storage>> by type
SectionDefaults(ty) ==
    CASE ty = "data_aggregation" -> <<200, 150, 50>>
      [] ty = "edge_analytics" -> <<400, 300, 100>>
      [] ty = "preprocessing" -> <<100, 100, 25>>
      [] ty = "caching" -> <<50, 50, 10>>
      [] OTHER -> <<200, 150, 50>>

\* a field of the task is the one of the body, or this value if that is 0
Defaulted(sent, got, dflt) == got = (IF sent = 0 THEN dflt ELSE sent)

\* C21.  Defaults.  In the task of every submission: a cpu, ram or storage
\* cost of 0 in the body is replaced by the default of the type, an energy
\* cost of 0 by half the cpu cost after its default, a network latency of 0
\* by 10 ms; every other value of the body is kept; the score and the
\* resource gate are computed on the values after defaults.
Thm_C21 ==
    \A s \in Slots : reqs[s].pc # "new" =>
        LET e == reqs[s].body
            t == reqs[s].task
        IN /\ Defaulted(e.cpuCost, t.cpuCost, SectionDefaults(e.type)[1])
           /\ Defaulted(e.ramCost, t.ramCost, SectionDefaults(e.type)[2])
           /\ Defaulted(e.storageCost, t.storageCost, SectionDefaults(e.type)[3])
           /\ Defaulted(e.energyCost, t.energyCost, t.cpuCost \div 2)
           /\ Defaulted(e.networkLatency, t.networkLatency, 10)
           /\ t.type = e.type /\ t.priority = e.priority
           /\ t.criticality = e.criticality
           /\ t.estimatedLatency = e.estimatedLatency
           /\ t.smartScore = SectionScore(t)
           /\ (reqs[s].pc = "done" /\ ~SawOverload(reqs[s])
                  /\ SawShortage(reqs[s]))
                 => reqs[s].outcome = "resources"

\* a body with no costs has been rejected for lack of cpu although 0 would
\* have fit, and one with a declared cpu cost and no energy cost is queued
\* with half of that cpu cost as its energy cost
Wit_C21 ==
    \E s, u \in Slots :
        /\ reqs[s].pc = "done" /\ reqs[u].pc = "done"
        /\ reqs[s].body.cpuCost = 0
        /\ reqs[s].outcome = "resources"
        /\ reqs[s].task.cpuCost > reqs[s].availableCPU
        /\ reqs[u].body.cpuCost > 0 /\ reqs[u].body.energyCost = 0
        /\ reqs[u].outcome = "admit"
        /\ objs[reqs[u].obj].energyCost * 2 = reqs[u].body.cpuCost

\* ----------------------------------------------------------- unknown type
KnownTypes == {"data_aggregation", "edge_analytics", "preprocessing", "caching"}

\* tasks whose completion a worker has not counted yet
Uncounted == {b \in BagToSet(busy) : b.pc = "metrics"}

Completed == {o \in DOMAIN objs : objs[o].status = "completed"}

\* C22.  A task of a type the node does not know gets the costs of the
\* last row of the defaults table, is rejected only if a gate fails on what
\* its submission read, and once executed is completed with an error
\* result, its reservation given back (the ledger balances) and its
\* completion counted in tasks_processed.
Thm_C22 ==
    /\ \A s \in Slots :
          (reqs[s].pc # "new" /\ reqs[s].body.type \notin KnownTypes) =>
              /\ reqs[s].body.cpuCost = 0 => reqs[s].task.cpuCost = 200
              /\ reqs[s].body.ramCost = 0 => reqs[s].task.ramCost = 150
              /\ reqs[s].body.storageCost = 0 => reqs[s].task.storageCost = 50
              /\ (reqs[s].pc = "done" /\ ~SawOverload(reqs[s])
                     /\ ~SawShortage(reqs[s])
                     /\ ~(reqs[s].task.criticality >= 4 /\ SawLowEnergy(reqs[s])))
                    => reqs[s].outcome = "admit"
    /\ \A o \in Completed :
          (objs[o].type \notin KnownTypes) <=> (objs[o].result = "error")
    /\ availableCPU + Reserved(CostCPU) = CapCPU
    /\ energyLevel + Reserved(CostEnergy) = CapEnergy
    /\ metrics.tasksProcessed + Cardinality(Uncounted) = Cardinality(Completed)

\* a task of unknown type was admitted, has completed with an error result
\* and is counted, nothing is reserved any more, nothing was ever rejected
Wit_C22 ==
    \E s \in Slots :
        /\ reqs[s].pc = "done"
        /\ reqs[s].body.type \notin KnownTypes
        /\ reqs[s].outcome = "admit"
        /\ objs[reqs[s].obj].status = "completed"
        /\ objs[reqs[s].obj].result = "error"
        /\ metrics.tasksProcessed = 1
        /\ availableCPU = CapCPU
        /\ metrics.tasksRejected = 0 /\ rejectedTasks = <<>>

\* C23.  A critical task (priority 0, criticality 5) whose costs fit and
\* whose submission read enough energy is admitted even if it read an
\* overloaded node (load above 0.80 or more than 50 tasks queued).
Cex_C23 ==
    [][\A s \in Slots :
          (/\ Commits(s)
           /\ reqs[s].task.priority = 0 /\ reqs[s].task.criticality = 5
           /\ SawOverload(reqs[s])
           /\ ~SawShortage(reqs[s]) /\ ~SawLowEnergy(reqs[s]))
          => Admitted(s)]_vars

\* -------------------------------------------------------------- shutdown
HeldByWorker(o) == \E b \in BagToSet(busy) : b.task = o

\* C24.  No popped task is dropped: a task that is still queued is in the
\* priority queue or in the hands of the worker that popped it, which will
\* process it, cancellation or not.
Cex_C24 ==
    \A o \in DOMAIN objs :
        objs[o].status = "queued" => (InQueue(taskHeap, o) \/ HeldByWorker(o))

\* C25.  After cancellation each of the five workers terminates, those
\* waiting for a task included.
Cex_C25 == cancelled ~> (exited = NumWorkers)

\* C26.  Counter monotonicity: no step decreases tasks_processed or
\* tasks_rejected.
Thm_C26 ==
    [][/\ metrics'.tasksProcessed >= metrics.tasksProcessed
       /\ metrics'.tasksRejected >= metrics.tasksRejected]_vars

\* both counters have been incremented, and a retry has succeeded, a clear
\* has emptied the rejection queue and the ticker has fired since
Wit_C26 ==
    /\ metrics.tasksProcessed = 2
    /\ metrics.tasksRejected = 1
    /\ rejectedTasks = <<>>
    /\ \E s \in Slots :
          /\ reqs[s].pc = "done" /\ reqs[s].outcome # "admit"
          /\ objs[reqs[s].obj].status = "completed"
    /\ metrics.currentLoad > 0

\* ---------------------------------------------------------------- workers
Processing == {o \in DOMAIN objs : objs[o].status = "processing"}

\* C27.  At most five tasks have the status processing at any instant.
Thm_C27 == Cardinality(Processing) <= 5

\* five tasks are processing, each in the hands of a worker, while a sixth
\* waits in the priority queue
Wit_C27 ==
    /\ Cardinality(Processing) = 5
    /\ \A o \in Processing : HeldByWorker(o)
    /\ Len(taskHeap) > 0

Cex_C29 ==
    \A k \in 1..Len(taskHeap) :
        /\ objs[taskHeap[k]].status = "queued"
        /\ objs[taskHeap[k]].id \in DOMAIN tasks
        /\ tasks[objs[taskHeap[k]].id] = taskHeap[k]

\* -------------------------------------------------------- rejection queue
NeverExecuted(o) == objs[o].result = "none" /\ objs[o].completedAt = NoTime

\* the node still holds task o: in its store, its priority queue, its
\* rejection queue or the hands of a worker
Held(o) ==
    \/ \E id \in DOMAIN tasks : tasks[id] = o
    \/ InQueue(taskHeap, o)
    \/ InRejectionQueue(rejectedTasks, o)
    \/ HeldByWorker(o)

\* C30 as stated.  Every task the node has ever handled is in the
\* rejection queue if and only if its status is rejected and it was never
\* executed.
Cex_C30 ==
    \A o \in DOMAIN objs :
        InRejectionQueue(rejectedTasks, o)
            <=> (objs[o].status = "rejected" /\ NeverExecuted(o))

\* C30 as amended.  Every task in the rejection queue has the status
\* rejected and was never executed, and every task of status rejected that
\* the node still holds is in the rejection queue and nowhere else; a
\* rejected task that is in no collection was discarded by a clear.
Thm_C30 ==
    \A o \in DOMAIN objs :
        /\ InRejectionQueue(rejectedTasks, o)
              => (objs[o].status = "rejected" /\ NeverExecuted(o))
        /\ (objs[o].status = "rejected" /\ Held(o))
              => /\ InRejectionQueue(rejectedTasks, o)
                 /\ ~InQueue(taskHeap, o)
                 /\ ~HeldByWorker(o)
                 /\ \A id \in DOMAIN tasks : tasks[id] # o

\* of two rejected tasks one is still in the rejection queue and the other
\* has been retried and executed and is in the store
Wit_C30 ==
    \E s, u \in Slots :
        /\ reqs[s].pc = "done" /\ reqs[s].outcome # "admit"
        /\ reqs[u].pc = "done" /\ reqs[u].outcome # "admit"
        /\ InRejectionQueue(rejectedTasks, reqs[s].obj)
        /\ objs[reqs[s].obj].status = "rejected"
        /\ objs[reqs[u].obj].status = "completed"
        /\ ~InRejectionQueue(rejectedTasks, reqs[u].obj)
        /\ Held(reqs[u].obj)

\* C31.  tasks_processed never exceeds the number of tasks whose status is
\* completed, and when no worker holds a task it equals that number.
Thm_C31 ==
    /\ metrics.tasksProcessed <= Cardinality(Completed)
    /\ busy = EmptyBag => metrics.tasksProcessed = Cardinality(Completed)

\* two tasks have been completed and counted, and the workers hold nothing
Wit_C31 ==
    /\ metrics.tasksProcessed = 2
    /\ Cardinality(Completed) = 2
    /\ busy = EmptyBag

\* C33.  The node_load and queue_size of a RejectedTask record are the
\* node's load and the length of the priority queue at the step that
\* appends the record to the rejection queue.
Cex_C33 ==
    [][\A s \in Slots :
          (Commits(s) /\ Len(rejectedTasks') = Len(rejectedTasks) + 1) =>
              LET rec == rejectedTasks'[Len(rejectedTasks')]
              IN /\ rec.nodeLoad = load
                 /\ rec.queueSize = Len(taskHeap)]_vars

\* the worker whose completion this step counts
Counted(b) == busy' = busy (-) SetToBag({b}) /\ b.pc = "metrics"

\* C34.  A completion with latency sample s sets avg_latency to s when the
\* average was 0 and to (avg_latency + s) / 2, in integer division, when it
\* was not: after a first sample of 0 the next sample replaces the average.
Thm_C34 ==
    [][metrics'.tasksProcessed # metrics.tasksProcessed =>
          \E b \in BagToSet(busy) :
              /\ Counted(b)
              /\ metrics'.avgLatency =
                    IF metrics.avgLatency = 0
                      THEN b.time
                      ELSE (metrics.avgLatency + b.time) \div 2
              /\ (metrics.tasksProcessed > 0 /\ metrics.avgLatency = 0) =>
                    metrics'.avgLatency = b.time]_vars

\* one completion with a sample of 0 has been counted and a worker is about
\* to count a sample that is not 0
Wit_C34 ==
    /\ metrics.tasksProcessed = 1
    /\ metrics.avgLatency = 0
    /\ \E b \in BagToSet(busy) : b.pc = "metrics" /\ b.time > 0

\* --------------------------------------------------------- single execution
\* the places that hold task o for execution: positions of the priority
\* queue and workers past heap.Pop
QueuePositions(o) == {k \in 1..Len(taskHeap) : taskHeap[k] = o}

Holders(o) == {b \in BagToSet(busy) : b.task = o}

Completes(o) == StatusChange(o) = <<"processing", "completed">>

\* C35.  A task pushed onto the priority queue is popped by at most one
\* worker, its handler runs at most once and its costs are given back at
\* most once: it is at one place at most, queue or worker; once processing
\* it only becomes completed, once completed it never changes; and the
\* ledger grows only in the step that completes a task, by its costs.
Thm_C35 ==
    [][/\ \A o \in DOMAIN objs' :
             /\ Cardinality(QueuePositions(o)') + Cardinality(Holders(o)') <= 1
             /\ \A b \in Holders(o)' : CopiesIn(b, busy') = 1
       /\ \A o \in DOMAIN objs :
             /\ objs[o].status = "completed" => objs'[o] = objs[o]
             /\ objs[o].status = "processing" =>
                   objs'[o].status \in {"processing", "completed"}
       /\ ledger' # ledger /\ availableCPU' >= availableCPU =>
             \E o \in DOMAIN objs :
                 /\ Completes(o)
                 /\ \A q \in DOMAIN objs : Completes(q) => q = o
                 /\ availableCPU' = availableCPU + objs[o].cpuCost
                 /\ availableRAM' = availableRAM + objs[o].ramCost
                 /\ availableStorage' = availableStorage + objs[o].storageCost
                 /\ energyLevel' = energyLevel + objs[o].energyCost]_vars

\* the five workers have executed the six tasks of the queue, every
\* reservation is back and nothing is left to execute
Wit_C35 ==
    /\ Cardinality(Completed) = NumWorkers + 1
    /\ metrics.tasksProcessed = NumWorkers + 1
    /\ busy = EmptyBag /\ taskHeap = <<>>
    /\ availableCPU = CapCPU /\ energyLevel = CapEnergy

\* C36.  While no submission has been rejected, so that no retry has pushed
\* anything, the priority queue holds at most 51 tasks.
Cex_C36 == metrics.tasksRejected = 0 => Len(taskHeap) <= QueueLimit + 1

\* C37.  The task store holds no rejected task: every stored task is
\* queued, processing or completed, and the id of a task that waits in the
\* rejection queue is not a key of the store.
Cex_C37 ==
    /\ \A id \in DOMAIN tasks :
           objs[tasks[id]].status \in {"queued", "processing", "completed"}
    /\ \A i \in 1..Len(rejectedTasks) :
           objs[rejectedTasks[i].task].id \notin DOMAIN tasks

\* C39.  A submission that the overload gate has rejected had read a
\* priority queue of more than 50 tasks: the load, which only the ticker
\* writes, rejects nothing while the queue holds 50 tasks or fewer.
Cex_C39 ==
    \A s \in Slots :
        (reqs[s].pc = "done" /\ reqs[s].outcome = "overload") =>
            reqs[s].queueSize > QueueLimit

\* C39, amended.  A submission that the overload gate rejects had read
\* more than 50 tasks queued or a load above 0.8; the load changes only in
\* a tick, which sets it to the length the queue has at that tick, so a
\* load left above 0.8 by an earlier tick rejects while the queue holds
\* 50 tasks or fewer.
Thm_C39 ==
    [][/\ load' # load => (load' = Len(taskHeap) /\ taskHeap' = taskHeap)
       /\ \A s \in Slots :
             (Commits(s) /\ reqs'[s].outcome = "overload"
                         /\ reqs[s].queueSize <= QueueLimit) =>
                 /\ reqs[s].currentLoad > MaxLoadThreshold
                 /\ Len(rejectedTasks') = Len(rejectedTasks) + 1]_vars

\* the load gate alone has rejected a submission, and the ticker has
\* since set the load to the length of the queue
Wit_C39 ==
    /\ \E s \in Slots :
           /\ reqs[s].pc = "done" /\ reqs[s].outcome = "overload"
           /\ reqs[s].queueSize <= QueueLimit
           /\ reqs[s].currentLoad > MaxLoadThreshold
    /\ load = Len(taskHeap) /\ load <= QueueLimit

\* ------------------------------------------------------------- GET /metrics
\* C38.  A GET /metrics response reports a rejected_queue_size that is at
\* most its tasks_rejected.
Cex_C38 ==
    probe.pc = "done" => probe.rejectedCount <= probe.metrics.tasksRejected

\* ------------------------------------------------------------------- locks
\* the places of a worker inside a section of fc.mu
WorkerSections ==
    {<<"worker", "popping">>, <<"worker", "marking">>,
     <<"worker", "completing">>}

\* C32.  No worker holds the node lock while it executes a handler: when a
\* worker is the writer of fc.mu it is inside the section it took the lock
\* in, the pop, the marking or the completion, so a worker that has left
\* the marking for the handler has released the lock and takes it again
\* only when it leaves the handler.
Thm_C32 ==
    /\ mu.w[1] = "worker" =>
          /\ mu.w \in WorkerSections
          /\ CopiesIn(mu.w, at) = 1
    /\ \A p \in WorkerSections : BagIn(p, at) => mu.w = p

\* two workers execute handlers while a third is inside the pop section
Wit_C32 ==
    /\ CopiesIn(<<"worker", "handler">>, at) = 2
    /\ mu.w = <<"worker", "popping">>

\* the places inside a writer's section of fc.metrics.mu
MetricsSections ==
    {<<"worker", "counting">>, <<"submit", "counting">>,
     <<"ticker", "copying">>}

\* Whoever holds fc.metrics.mu is inside the section it took it in, where
\* it asks for no lock; rejectTask alone is there with fc.mu in its hands.
LockOrder ==
    /\ metricsMu.w # NoOne =>
          /\ metricsMu.w \in MetricsSections
          /\ CopiesIn(metricsMu.w, at) = 1
    /\ \A p \in MetricsSections : BagIn(p, at) => metricsMu.w = p
    /\ metricsMu.r = CopiesIn(<<"metrics", "counters">>, at)
    /\ mu.w = <<"submit", "rejecting">> <=>
          \/ BagIn(<<"submit", "rejecting">>, at)
          \/ BagIn(<<"submit", "counting">>, at)
          \/ BagIn(<<"submit", "logging">>, at)
    /\ \A role \in Roles : \A st \in Acquisitions(role) :
          st[1] \in {"Lock", "call", "RLock"} =>
              <<role, st[2]>> \notin
                  MetricsSections \cup {<<"metrics", "counters">>}

\* the lock a step asks for
Asked(st) ==
    IF st[1] \in {"metrics.Lock", "metrics.RLock"} THEN metricsMu ELSE mu

\* a goroutine that asks for a lock that nobody holds can take it, or
\* return on cancellation instead
FreeForAll ==
    \A role \in Roles : \A st \in Acquisitions(role) :
        (BagIn(<<role, st[2]>>, at) /\ CanLock(Asked(st))) =>
            ENABLED Leaves(role, st[2])

\* C40.  No deadlock between fc.mu and fc.metrics.mu: fc.mu is never asked
\* for with fc.metrics.mu in hand, so each lock is given back and is free
\* again and again, and every goroutine that asks for a lock (submit,
\* reject, retry, clear, worker, ticker, GET /metrics) can take it each
\* time it is free: it obtains it unless the lock always goes to another.
Thm_C40 ==
    /\ [](LockOrder /\ FreeForAll)
    /\ []<>CanLock(mu)
    /\ []<>CanLock(metricsMu)

\* rejectTask holds both locks while a worker and GET /metrics wait for
\* one each
Wit_C40 ==
    /\ mu.w = <<"submit", "rejecting">>
    /\ metricsMu.w = <<"submit", "counting">>
    /\ BagIn(<<"worker", "metrics">>, at)
    /\ BagIn(<<"worker", "handler">>, at)
    /\ BagIn(<<"metrics", "call">>, at)
====
